---- MODULE Spec2Model ----
(***************************************************************************)
(* Model of the three scripts ca-auth.py, rest-api.py and metadata-api.py: *)
(* one run of one script, from the process environment to the outcome of   *)
(* main().  Strings are TLA+ strings; "" stands for an environment         *)
(* variable that is unset or empty (os.getenv gives None or "", and both   *)
(* are falsy in `if not v`).                                               *)
(***************************************************************************)
EXTENDS Integers, Sequences, FiniteSets, TLC

VARIABLES prog, env, pc, clock, now, jwt_token, requests, responses,
          session, result, exc, log

vars == <<prog, env, pc, clock, now, jwt_token, requests, responses,
          session, result, exc, log>>

-----------------------------------------------------------------------------
(* Bounds of the model *)

\* the clock advances at most this many ticks during a run
MaxClock == 3
\* clock ticks per second (datetime.utcnow() is finer than the JWT's seconds)
TicksPerSecond == 2
\* longest project name drawn for the filter construction
MaxNameLen == 2

(* Program constants *)

\* timedelta(minutes=5), in seconds
FiveMinutes == 300

-----------------------------------------------------------------------------
(* Strings *)

Char(s, i) == SubSeq(s, i, i)

RECURSIVE Join(_, _)
\* sep.join(seq)
Join(seq, sep) ==
    IF Len(seq) = 0 THEN ""
    ELSE IF Len(seq) = 1 THEN seq[1]
    ELSE seq[1] \o sep \o Join(Tail(seq), sep)

RECURSIVE StringsOfLen(_, _)
StringsOfLen(alphabet, n) ==
    IF n = 0 THEN {""}
    ELSE {c \o s : c \in alphabet, s \in StringsOfLen(alphabet, n - 1)}

-----------------------------------------------------------------------------
(* The three scripts and their configuration *)

Programs == {"ca-auth", "rest-api", "metadata-api"}

\* ca-auth.py load_config: required_vars, in dict order
\* (variant: a required_vars that leaves CONNECTED_APP_SECRET unchecked)
CaRequiredVarsNoSecret ==
    <<"CONNECTED_APP_CLIENT_ID", "CONNECTED_APP_SECRET_ID",
      "TABLEAU_USER", "TABLEAU_POD", "TABLEAU_API_VERSION", "TABLEAU_SITE">>

CaRequiredVars ==
    <<"CONNECTED_APP_CLIENT_ID", "CONNECTED_APP_SECRET",
      "CONNECTED_APP_SECRET_ID", "TABLEAU_USER", "TABLEAU_POD",
      "TABLEAU_API_VERSION", "TABLEAU_SITE">>

\* rest-api.py / metadata-api.py load_config: required_vars, in dict order
ContentRequiredVars ==
    <<"TABLEAU_POD", "TABLEAU_SITE", "TABLEAU_PROJECT_1",
      "TABLEAU_PROJECT_2", "TABLEAU_API_VERSION">>

Range(seq) == {seq[i] : i \in 1..Len(seq)}

\* the names the scripts read with os.getenv
EnvVars ==
    {"CONNECTED_APP_CLIENT_ID", "CONNECTED_APP_SECRET",
     "CONNECTED_APP_SECRET_ID", "TABLEAU_USER", "TABLEAU_POD",
     "TABLEAU_API_VERSION", "TABLEAU_SITE", "TABLEAU_PROJECT_1",
     "TABLEAU_PROJECT_2"}

\* the value each variable has when it is set
SampleEnv ==
    [k \in EnvVars |->
        CASE k = "CONNECTED_APP_CLIENT_ID" -> "client-id"
          [] k = "CONNECTED_APP_SECRET"    -> "secret"
          [] k = "CONNECTED_APP_SECRET_ID" -> "secret-id"
          [] k = "TABLEAU_USER"            -> "user@example.com"
          [] k = "TABLEAU_POD"             -> "pod.example.com"
          [] k = "TABLEAU_API_VERSION"     -> "3.21"
          [] k = "TABLEAU_SITE"            -> "site"
          [] k = "TABLEAU_PROJECT_1"       -> "Sales"
          [] k = "TABLEAU_PROJECT_2"       -> "HR"]

\* every environment: each variable set, or unset/empty
Environments ==
    {[k \in EnvVars |-> IF k \in unset THEN "" ELSE SampleEnv[k]] :
        unset \in SUBSET EnvVars}

\* missing = [k for k, v in required_vars.items() if not v]
MissingVars(required, e) == SelectSeq(required, LAMBDA k : e[k] = "")

MissingPrefix == "Missing required environment variables: "

\* f"Missing required environment variables: {', '.join(missing)}"
MissingMessage(missing) == MissingPrefix \o Join(missing, ", ")

-----------------------------------------------------------------------------
(* HTTP responses and exceptions *)

\* a response object; `received` is FALSE for "no response" (None)
NoResponse ==
    [received |-> FALSE, status_code |-> 0, is_json |-> FALSE,
     json |-> [none |-> TRUE]]

Response(status, isJson, body) ==
    [received |-> TRUE, status_code |-> status, is_json |-> isJson,
     json |-> body]

\* exception objects: type, message and (for requests' exceptions) response
Exception(type, msg, response) ==
    [type |-> type, msg |-> msg, response |-> response]

NoException == Exception("", "", NoResponse)

-----------------------------------------------------------------------------
(* What the platform may answer *)

Tokens == {"T1", "T2"}
SiteIds == {"S1"}
Statuses == {200, 201, 401, 500}
UUIDs == {"uuid-1", "uuid-2"}

NotJsonBody == [raw |-> "<html>"]

SignInBodies ==
    {[credentials |-> [token |-> t, site |-> [id |-> s]]] :
        t \in Tokens, s \in SiteIds}
    \cup {[error |-> [code |-> "401001"]],
          [credentials |-> [site |-> [id |-> "S1"]]],
          [credentials |-> [token |-> "T1"]],
          [credentials |-> [token |-> "T1", site |-> [contentUrl |-> "site"]]]}

WorkbookBodies ==
    {[workbooks |-> [workbook |-> <<>>]],
     [workbooks |-> [workbook |-> <<[name |-> "w1"], [name |-> "w2"]>>]],
     [workbooks |-> [other |-> "x"]],
     [pagination |-> [pageNumber |-> "1"]]}

GraphQLBodies ==
    {[data |-> [tableauSites |-> <<>>]],
     [errors |-> <<[message |-> "Unknown field"]>>],
     [data |-> [tableauSites |-> <<>>],
      errors |-> <<[message |-> "Unknown field"]>>]}

ResponsesWith(bodies) ==
    {NoResponse}
    \cup {Response(st, TRUE, b) : st \in Statuses, b \in bodies}
    \cup {Response(st, FALSE, NotJsonBody) : st \in Statuses}

-----------------------------------------------------------------------------
(* ca-auth.py generate_jwt_token *)

\* PyJWT turns a datetime claim into whole seconds (timegm of its utctimetuple)
Timestamp(t) == t \div TicksPerSecond

\* "exp": now + datetime.timedelta(minutes=5)
\* (variant: exp taken from a second reading of the clock)
ExpClaimFromClock(t) == Timestamp(clock + FiveMinutes * TicksPerSecond)

ExpClaim(t) == Timestamp(t + FiveMinutes * TicksPerSecond)

\* "iat": now
IatClaim(t) == Timestamp(t)

Scopes == <<"tableau:views:embed", "tableau:insights:embed",
            "tableau:content:read">>

\* jwt.encode(payload, secret, algorithm="HS256", headers=headers); the
\* signature is represented by the key it was made with
JwtEncode(config, t, uuid) ==
    [payload |-> [iss |-> config["CONNECTED_APP_CLIENT_ID"],
                  exp |-> ExpClaim(t),
                  iat |-> IatClaim(t),
                  jti |-> uuid,
                  aud |-> "tableau",
                  sub |-> config["TABLEAU_USER"],
                  scp |-> Scopes,
                  org_id |-> "1234567890"],
     headers |-> [kid |-> config["CONNECTED_APP_SECRET_ID"],
                  iss |-> config["CONNECTED_APP_CLIENT_ID"],
                  typ |-> "JWT",
                  alg |-> "HS256"],
     key |-> config["CONNECTED_APP_SECRET"]]

NoJwt ==
    [payload |-> [iss |-> "", exp |-> 0, iat |-> 0, jti |-> "", aud |-> "",
                  sub |-> "", scp |-> <<>>, org_id |-> ""],
     headers |-> [kid |-> "", iss |-> "", typ |-> "", alg |-> ""],
     key |-> ""]

-----------------------------------------------------------------------------
(* ca-auth.py authenticate_with_tableau *)

NoJson == [none |-> TRUE]
NoParams == <<>>

SignInRequest(jwt, config) ==
    [method |-> "POST",
     url |-> "https://" \o config["TABLEAU_POD"] \o "/api/"
             \o config["TABLEAU_API_VERSION"] \o "/auth/signin",
     headers |-> ("Content-Type" :> "application/json")
                 @@ ("Accept" :> "application/json"),
     json |-> [credentials |->
                 [jwt |-> jwt,
                  site |-> [contentUrl |-> config["TABLEAU_SITE"]]]],
     params |-> NoParams,
     query |-> "",
     verify |-> TRUE]

\* response.raise_for_status(): an HTTPError for 4xx and 5xx
\* (variant: the status is never checked)
RaiseForStatusNever(r) == FALSE

RaiseForStatus(r) == r.status_code >= 400 /\ r.status_code < 600

\* the exception of raise_for_status, with the response attached to it
\* (variant: the error raised without the response)
HTTPErrorWithoutResponse(r) ==
    Exception("HTTPError", ToString(r.status_code) \o " Error", NoResponse)

HTTPError(r) ==
    Exception("HTTPError", ToString(r.status_code) \o " Error", r)

\* requests.post / session.get / session.post when no response arrives
ConnectionError == Exception("ConnectionError", "Connection failed", NoResponse)

\* response.json() on a body that is not JSON (requests.exceptions.
\* JSONDecodeError: a RequestException and a ValueError, no response attached)
JSONDecodeError == Exception("JSONDecodeError", "Expecting value", NoResponse)

\* d[key] on a dict without the key
\* (variant: a missing key reported as a request failure)
KeyErrorAsRequestError(key) == Exception("ConnectionError", key, NoResponse)

KeyError(key) == Exception("KeyError", key, NoResponse)

NoSession == [token |-> "", site_id |-> ""]

\* lines 113-122: the exception raised, or the dict returned
AuthenticateResult(r) ==
    IF ~r.received THEN [exc |-> ConnectionError, value |-> NoSession]
    ELSE IF RaiseForStatus(r) THEN [exc |-> HTTPError(r), value |-> NoSession]
    ELSE IF ~r.is_json THEN [exc |-> JSONDecodeError, value |-> NoSession]
    ELSE IF "credentials" \notin DOMAIN r.json
        THEN [exc |-> KeyError("credentials"), value |-> NoSession]
    ELSE IF "token" \notin DOMAIN r.json.credentials
        THEN [exc |-> KeyError("token"), value |-> NoSession]
    ELSE IF "site" \notin DOMAIN r.json.credentials
        THEN [exc |-> KeyError("site"), value |-> NoSession]
    ELSE IF "id" \notin DOMAIN r.json.credentials.site
        THEN [exc |-> KeyError("id"), value |-> NoSession]
    ELSE [exc |-> NoException,
          value |-> [token |-> r.json.credentials.token,
                     site_id |-> r.json.credentials.site.id]]

-----------------------------------------------------------------------------
(* urllib.parse.urlencode, as rest-api.py get_workbooks uses it *)

\* the characters quote_plus never escapes: letters, digits and "_.-~"
AlwaysSafe ==
    {"a", "b", "c", "d", "e", "f", "g", "h", "i", "j", "k", "l", "m",
     "n", "o", "p", "q", "r", "s", "t", "u", "v", "w", "x", "y", "z",
     "A", "B", "C", "D", "E", "F", "G", "H", "I", "J", "K", "L", "M",
     "N", "O", "P", "Q", "R", "S", "T", "U", "V", "W", "X", "Y", "Z",
     "0", "1", "2", "3", "4", "5", "6", "7", "8", "9", "_", ".", "-", "~"}

\* the other characters the model's strings hold, with their %XX escapes
PercentCodes ==
    (":" :> "%3A") @@ ("[" :> "%5B") @@ ("]" :> "%5D") @@ ("," :> "%2C")
    @@ ("&" :> "%26") @@ ("=" :> "%3D") @@ ("+" :> "%2B") @@ ("%" :> "%25")
    @@ ("/" :> "%2F") @@ ("@" :> "%40")

\* quote_plus of one character: a space becomes "+"
QuoteChar(c) ==
    IF c \in AlwaysSafe THEN c
    ELSE IF c = " " THEN "+"
    ELSE PercentCodes[c]

RECURSIVE QuotePlus(_)
QuotePlus(s) ==
    IF Len(s) = 0 THEN ""
    ELSE QuoteChar(Char(s, 1)) \o QuotePlus(SubSeq(s, 2, Len(s)))

\* urlencode of a dict given as the sequence of its (key, value) items
UrlEncode(items) ==
    Join([i \in 1..Len(items) |->
            QuotePlus(items[i][1]) \o "=" \o QuotePlus(items[i][2])], "&")

-----------------------------------------------------------------------------
(* rest-api.py get_workbooks *)

\* projects = f'[{config.project_1},{config.project_2}]'
\* (variant: the two names in the other order)
ProjectsSwapped(project_1, project_2) ==
    "[" \o project_2 \o "," \o project_1 \o "]"

Projects(project_1, project_2) ==
    "[" \o project_1 \o "," \o project_2 \o "]"

\* params, in dict order
WorkbookParams(config) ==
    <<<<"pageSize", "100">>,
      <<"pageNumber", "1">>,
      <<"filter", "projectName:in:"
                  \o Projects(config["TABLEAU_PROJECT_1"],
                              config["TABLEAU_PROJECT_2"])>>>>

\* headers of the two content calls
\* (variant: the site id sent in place of the token)
AuthHeaderSiteId(s) == "X-tableau-auth" :> s.site_id

AuthHeader(s) == "X-tableau-auth" :> s.token

WorkbooksRequest(config, s) ==
    [method |-> "GET",
     url |-> "https://" \o config["TABLEAU_POD"] \o "/api/"
             \o config["TABLEAU_API_VERSION"] \o "/sites/" \o s.site_id
             \o "/workbooks",
     headers |-> AuthHeader(s) @@ ("Content-Type" :> "application/json")
                 @@ ("Accept" :> "application/json"),
     json |-> NoJson,
     params |-> WorkbookParams(config),
     query |-> UrlEncode(WorkbookParams(config)),
     verify |-> FALSE]

ValueError(msg) == Exception("ValueError", msg, NoResponse)

NoResult == [returned |-> FALSE, workbooks |-> <<>>, content |-> NoJson]

\* lines 128-137: the exception raised, or the list returned
GetWorkbooksResult(r) ==
    IF ~r.received THEN [exc |-> ConnectionError, value |-> NoResult]
    ELSE IF RaiseForStatus(r) THEN [exc |-> HTTPError(r), value |-> NoResult]
    ELSE IF r.status_code # 200
        THEN [exc |-> ValueError("Unexpected status code: "
                                 \o ToString(r.status_code)),
              value |-> NoResult]
    ELSE IF ~r.is_json THEN [exc |-> JSONDecodeError, value |-> NoResult]
    ELSE IF "workbooks" \notin DOMAIN r.json
        THEN [exc |-> KeyError("workbooks"), value |-> NoResult]
    ELSE IF "workbook" \notin DOMAIN r.json.workbooks
        THEN [exc |-> KeyError("workbook"), value |-> NoResult]
    ELSE [exc |-> NoException,
          value |-> [returned |-> TRUE,
                     workbooks |-> r.json.workbooks.workbook,
                     content |-> NoJson]]

-----------------------------------------------------------------------------
(* metadata-api.py get_tableau_content *)

TableauContentQuery ==
    "query tableauContent($tableau_site: String, $tableau_project_1: String, "
    \o "$tableau_project_2: String) { tableauSites(...) { ... } }"

ContentRequest(config, s) ==
    [method |-> "POST",
     url |-> "https://" \o config["TABLEAU_POD"] \o "/api/metadata/graphql",
     headers |-> AuthHeader(s) @@ ("Content-Type" :> "application/json"),
     json |-> [query |-> TableauContentQuery,
               variables |->
                 [tableau_site |-> config["TABLEAU_SITE"],
                  tableau_project_1 |-> config["TABLEAU_PROJECT_1"],
                  tableau_project_2 |-> config["TABLEAU_PROJECT_2"]]],
     params |-> NoParams,
     query |-> "",
     verify |-> FALSE]

\* lines 111-125: the exception raised, or the document returned
GetTableauContentResult(r) ==
    IF ~r.received THEN [exc |-> ConnectionError, value |-> NoResult]
    ELSE IF RaiseForStatus(r) THEN [exc |-> HTTPError(r), value |-> NoResult]
    ELSE IF ~r.is_json THEN [exc |-> JSONDecodeError, value |-> NoResult]
    ELSE [exc |-> NoException,
          value |-> [returned |-> TRUE, workbooks |-> <<>>,
                     content |-> r.json]]

-----------------------------------------------------------------------------
(* Logging and the except clauses *)

Info(msg) == [level |-> "INFO", msg |-> msg]
Error(msg) == [level |-> "ERROR", msg |-> msg]

\* the exception classes: requests' JSONDecodeError is both a
\* RequestException and a ValueError
IsValueError(e) == e.type \in {"ValueError", "JSONDecodeError"}
IsRequestException(e) ==
    e.type \in {"HTTPError", "ConnectionError", "JSONDecodeError"}

\* if hasattr(e, 'response') and e.response is not None: status and text
ResponseLines(e, statusLabel, textLabel) ==
    IF e.response.received
    THEN <<Error(statusLabel \o ToString(e.response.status_code)),
           Error(textLabel \o ToString(e.response.json))>>
    ELSE <<>>

\* ca-auth.py main, lines 135-145: the first except clause that matches
CaAuthExcept(e) ==
    IF IsValueError(e) THEN <<Error("Configuration error: " \o e.msg)>>
    ELSE IF IsRequestException(e)
        THEN <<Error("Error making request: " \o e.msg)>>
             \o ResponseLines(e, "Response Status Code: ", "Response Text: ")
    ELSE IF e.type = "KeyError"
        THEN <<Error("Unexpected response structure, missing key: '"
                     \o e.msg \o "'")>>
    ELSE <<Error("Unexpected error: " \o e.msg)>>

\* rest-api.py lines 157-159, metadata-api.py lines 188-190
ContentExcept(e) == <<Error("Application error: " \o e.msg)>>

\* rest-api.py get_workbooks, lines 139-144
GetWorkbooksExcept(e) ==
    IF IsRequestException(e)
    THEN <<Error("Failed to retrieve workbooks: " \o e.msg)>>
         \o ResponseLines(e, "Response status code: ", "Response text: ")
    ELSE <<>>

\* metadata-api.py get_tableau_content, lines 127-134
GetTableauContentExcept(e) ==
    IF IsRequestException(e)
    THEN <<Error("API request failed: " \o e.msg)>>
         \o (IF e.response.received /\ e.response.status_code = 401
                THEN <<Error("Authentication failed")>>
             ELSE IF e.response.received /\ e.response.status_code = 500
                THEN <<Error("Pod error occurred")>>
             ELSE <<>>)
    ELSE <<>>

\* where control goes when a statement of main's try block raises: ca-auth.py
\* logs and returns, the other two log and re-raise out of main
\* (variant: the failed statement is run again)
PcAfterRaiseRetry(at) == at

PcAfterRaise(at) == IF prog = "ca-auth" THEN "done" ELSE "raised"

\* an exception `e` leaves the function that raised it (which logged
\* `entries` on the way) and reaches main's except clauses
Raise(e, entries) ==
    /\ exc' = e
    /\ log' = log \o entries
              \o (IF prog = "ca-auth" THEN CaAuthExcept(e) ELSE ContentExcept(e))
    /\ pc' = PcAfterRaise(pc)

-----------------------------------------------------------------------------
(* The run *)

TypeOK ==
    /\ prog \in Programs
    /\ pc \in {"load_config", "ca_load_config", "utcnow", "jwt_encode",
               "signin", "query", "log_tokens", "done", "raised"}
    /\ clock \in 0..MaxClock
    /\ now \in 0..MaxClock
    /\ Len(requests) = Len(responses)

InitWith(p, e) ==
    /\ prog = p
    /\ env = e
    /\ pc = IF p = "ca-auth" THEN "ca_load_config" ELSE "load_config"
    /\ clock = 0
    /\ now = 0
    /\ jwt_token = NoJwt
    /\ requests = <<>>
    /\ responses = <<>>
    /\ session = NoSession
    /\ result = NoResult
    /\ exc = NoException
    /\ log = <<>>

Init == \E p \in Programs, e \in Environments : InitWith(p, e)

\* rest-api.py / metadata-api.py load_config
LoadConfig ==
    /\ pc = "load_config"
    /\ LET missing_vars == MissingVars(ContentRequiredVars, env)
       IN  IF Len(missing_vars) > 0
           THEN Raise(ValueError(MissingMessage(missing_vars)), <<>>)
           ELSE /\ pc' = "ca_load_config"
                /\ UNCHANGED <<exc, log>>
    /\ UNCHANGED <<prog, env, clock, now, jwt_token, requests, responses,
                   session, result>>

\* ca-auth.py load_config
CaLoadConfig ==
    /\ pc = "ca_load_config"
    /\ LET missing == MissingVars(CaRequiredVars, env)
       IN  IF Len(missing) > 0
           THEN Raise(ValueError(MissingMessage(missing)), <<>>)
           ELSE /\ pc' = "utcnow"
                /\ UNCHANGED <<exc, log>>
    /\ UNCHANGED <<prog, env, clock, now, jwt_token, requests, responses,
                   session, result>>

\* ca-auth.py generate_jwt_token, line 50: now = datetime.datetime.utcnow()
UtcNow ==
    /\ pc = "utcnow"
    /\ now' = clock
    /\ pc' = "jwt_encode"
    /\ UNCHANGED <<prog, env, clock, jwt_token, requests, responses,
                   session, result, exc, log>>

\* ca-auth.py generate_jwt_token, lines 51-77
GenerateJwtToken ==
    /\ pc = "jwt_encode"
    /\ \E uuid \in UUIDs : jwt_token' = JwtEncode(env, now, uuid)
    /\ pc' = "signin"
    /\ UNCHANGED <<prog, env, clock, now, requests, responses,
                   session, result, exc, log>>

\* ca-auth.py authenticate_with_tableau, and the return of get_tableau_auth /
\* get_tableau_token
AuthenticateWithTableau ==
    /\ pc = "signin"
    /\ \E r \in ResponsesWith(SignInBodies) :
        /\ requests' = Append(requests, SignInRequest(jwt_token, env))
        /\ responses' = Append(responses, r)
        /\ LET res == AuthenticateResult(r)
           IN  IF res.exc.type # ""
               THEN /\ Raise(res.exc, <<>>)
                    /\ UNCHANGED session
               ELSE /\ session' = res.value
                    /\ pc' = IF prog = "ca-auth" THEN "log_tokens" ELSE "query"
                    /\ UNCHANGED <<exc, log>>
    /\ UNCHANGED <<prog, env, clock, now, jwt_token, result>>

\* ca-auth.py main, lines 132-134
LogTokens ==
    /\ pc = "log_tokens"
    /\ log' = log \o <<Info("JWT Token: " \o ToString(jwt_token)),
                       Info("Tableau REST API Token: " \o session.token),
                       Info("Site ID: " \o session.site_id)>>
    /\ pc' = "done"
    /\ UNCHANGED <<prog, env, clock, now, jwt_token, requests, responses,
                   session, result, exc>>

\* rest-api.py get_workbooks and main, lines 154-155
GetWorkbooks ==
    /\ pc = "query"
    /\ prog = "rest-api"
    /\ \E r \in ResponsesWith(WorkbookBodies) :
        /\ requests' = Append(requests, WorkbooksRequest(env, session))
        /\ responses' = Append(responses, r)
        /\ LET res == GetWorkbooksResult(r)
               start == <<Info("Retrieving workbooks for site ID: "
                               \o session.site_id)>>
           IN  IF res.exc.type # ""
               THEN /\ Raise(res.exc, start \o GetWorkbooksExcept(res.exc))
                    /\ UNCHANGED result
               ELSE /\ result' = res.value
                    /\ log' = log \o start
                          \o <<Info("Received status code: "
                                    \o ToString(r.status_code)),
                               Info("Response content: " \o ToString(r.json)),
                               Info("Retrieved "
                                    \o ToString(Len(res.value.workbooks))
                                    \o " workbooks")>>
                    /\ pc' = "done"
                    /\ UNCHANGED exc
    /\ UNCHANGED <<prog, env, clock, now, jwt_token, session>>

\* metadata-api.py get_tableau_content and main, lines 185-186
GetTableauContent ==
    /\ pc = "query"
    /\ prog = "metadata-api"
    /\ \E r \in ResponsesWith(GraphQLBodies) :
        /\ requests' = Append(requests, ContentRequest(env, session))
        /\ responses' = Append(responses, r)
        /\ LET res == GetTableauContentResult(r)
           IN  IF res.exc.type # ""
               THEN /\ Raise(res.exc, GetTableauContentExcept(res.exc))
                    /\ UNCHANGED result
               ELSE /\ result' = res.value
                    /\ log' = log
                          \o <<Info("Received status code: "
                                    \o ToString(r.status_code))>>
                    /\ pc' = "done"
                    /\ UNCHANGED exc
    /\ UNCHANGED <<prog, env, clock, now, jwt_token, session>>

\* time passes while the script runs
Tick ==
    /\ pc \notin {"done", "raised"}
    /\ clock < MaxClock
    /\ clock' = clock + 1
    /\ UNCHANGED <<prog, env, pc, now, jwt_token, requests, responses,
                   session, result, exc, log>>

Next ==
    \/ LoadConfig
    \/ CaLoadConfig
    \/ UtcNow
    \/ GenerateJwtToken
    \/ AuthenticateWithTableau
    \/ LogTokens
    \/ GetWorkbooks
    \/ GetTableauContent
    \/ Tick

Spec == Init /\ [][Next]_vars

-----------------------------------------------------------------------------
(* The filter construction on its own: rest-api.py at the call of           *)
(* get_workbooks, after a successful sign-in, for every pair of project     *)
(* names up to MaxNameLen characters                                        *)

NameAlphabet == {"a", " ", "&"}

ProjectNames ==
    {"Sales", "HR"}
    \cup UNION {StringsOfLen(NameAlphabet, n) : n \in 1..MaxNameLen}

FilterInit ==
    \E p1 \in ProjectNames, p2 \in ProjectNames, t \in Tokens, s \in SiteIds :
        LET e == [SampleEnv EXCEPT !["TABLEAU_PROJECT_1"] = p1,
                                   !["TABLEAU_PROJECT_2"] = p2]
            jwt == JwtEncode(e, 0, "uuid-1")
        IN  /\ prog = "rest-api"
            /\ env = e
            /\ pc = "query"
            /\ clock = 0
            /\ now = 0
            /\ jwt_token = jwt
            /\ requests = <<SignInRequest(jwt, e)>>
            /\ responses = <<Response(200, TRUE,
                    [credentials |-> [token |-> t, site |-> [id |-> s]]])>>
            /\ session = [token |-> t, site_id |-> s]
            /\ result = NoResult
            /\ exc = NoException
            /\ log = <<>>

FilterNext == GetWorkbooks

SpecFilter == FilterInit /\ [][FilterNext]_vars

-----------------------------------------------------------------------------
(* Vocabulary of the properties *)

Terminated == pc \in {"done", "raised"}

EndsWith(s, suffix) ==
    /\ Len(s) >= Len(suffix)
    /\ SubSeq(s, Len(s) - Len(suffix) + 1, Len(s)) = suffix

StartsWith(s, prefix) ==
    /\ Len(s) >= Len(prefix)
    /\ SubSeq(s, 1, Len(prefix)) = prefix

IsSignInCall(req) == req.method = "POST" /\ EndsWith(req.url, "/auth/signin")
IsListingCall(req) == req.method = "GET" /\ EndsWith(req.url, "/workbooks")
IsSchemaQueryCall(req) ==
    req.method = "POST" /\ EndsWith(req.url, "/api/metadata/graphql")
IsQueryCall(req) == IsListingCall(req) \/ IsSchemaQueryCall(req)

Is2xx(r) == r.received /\ r.status_code >= 200 /\ r.status_code <= 299

HasToken(r) ==
    /\ r.is_json
    /\ "credentials" \in DOMAIN r.json
    /\ "token" \in DOMAIN r.json.credentials

HasSiteId(r) ==
    /\ r.is_json
    /\ "credentials" \in DOMAIN r.json
    /\ "site" \in DOMAIN r.json.credentials
    /\ "id" \in DOMAIN r.json.credentials.site

HasWorkbookList(r) ==
    /\ r.is_json
    /\ "workbooks" \in DOMAIN r.json
    /\ "workbook" \in DOMAIN r.json.workbooks

IdentityFields ==
    {"CONNECTED_APP_CLIENT_ID", "CONNECTED_APP_SECRET",
     "CONNECTED_APP_SECRET_ID", "TABLEAU_USER", "TABLEAU_POD",
     "TABLEAU_API_VERSION", "TABLEAU_SITE"}

ProjectFields == {"TABLEAU_PROJECT_1", "TABLEAU_PROJECT_2"}

\* the fields the running script requires
RequiredFields ==
    IF prog = "ca-auth" THEN IdentityFields
    ELSE IdentityFields \cup ProjectFields

MissingFields == {k \in RequiredFields : env[k] = ""}

RECURSIVE SplitOn(_, _)
\* s.split(sep)
SplitOn(s, sep) ==
    LET hits == {i \in 1..(Len(s) - Len(sep) + 1) :
                    SubSeq(s, i, i + Len(sep) - 1) = sep}
    IN  IF hits = {} THEN <<s>>
        ELSE LET i == CHOOSE j \in hits : \A k \in hits : j <= k
             IN  <<SubSeq(s, 1, i - 1)>>
                 \o SplitOn(SubSeq(s, i + Len(sep), Len(s)), sep)

\* the names a configuration error's message lists
NamesListed(msg) ==
    IF StartsWith(msg, "Missing required environment variables: ")
    THEN Range(SplitOn(SubSeq(msg,
                 Len("Missing required environment variables: ") + 1,
                 Len(msg)), ", "))
    ELSE {}

IsConfigurationError(e) ==
    /\ e.type = "ValueError"
    /\ StartsWith(e.msg, "Missing required environment variables: ")

RECURSIVE UnquotePlus(_)
\* what the receiving side reads back from one escaped key or value
UnquotePlus(s) ==
    IF Len(s) = 0 THEN ""
    ELSE IF Char(s, 1) = "+" THEN " " \o UnquotePlus(SubSeq(s, 2, Len(s)))
    ELSE IF Char(s, 1) = "%"
        THEN (CHOOSE c \in DOMAIN PercentCodes :
                 PercentCodes[c] = SubSeq(s, 1, 3))
             \o UnquotePlus(SubSeq(s, 4, Len(s)))
    ELSE Char(s, 1) \o UnquotePlus(SubSeq(s, 2, Len(s)))

\* the values a query string carries for `key`, in order
QueryValues(q, key) ==
    LET pairs == SplitOn(q, "&")
        kv == [i \in 1..Len(pairs) |-> SplitOn(pairs[i], "=")]
        mine == SelectSeq(kv, LAMBDA x : Len(x) = 2 /\ UnquotePlus(x[1]) = key)
    IN  [i \in 1..Len(mine) |-> UnquotePlus(mine[i][2])]

ParamValues(params, key) ==
    LET mine == SelectSeq(params, LAMBDA x : x[1] = key)
    IN  [i \in 1..Len(mine) |-> mine[i][2]]

-----------------------------------------------------------------------------
(* Properties *)

\* C1: a query call (the GET on .../workbooks or the POST on
\* /api/metadata/graphql) is sent only after the sign-in call of the same run
\* got a 2xx response carrying a session token (and, for the listing call, a
\* site identifier), and the token of that response is the session's; when the
\* sign-in call failed, or the run failed before it, no query call is sent.
NoQueryWithoutSignIn ==
    /\ \A i \in 1..Len(requests) :
          IsQueryCall(requests[i]) =>
             /\ i = 2
             /\ IsSignInCall(requests[1])
             /\ Is2xx(responses[1])
             /\ HasToken(responses[1])
             /\ session.token = responses[1].json.credentials.token
             /\ IsListingCall(requests[i]) =>
                   /\ HasSiteId(responses[1])
                   /\ session.site_id = responses[1].json.credentials.site.id
    /\ (Len(requests) >= 1 /\ IsSignInCall(requests[1])
          /\ ~(Is2xx(responses[1]) /\ HasToken(responses[1])
                 /\ HasSiteId(responses[1])))
        => /\ Len(requests) = 1
           /\ session = NoSession
           /\ exc.type # ""
    /\ (Terminated /\ Len(requests) = 0) => exc.type # ""

\* C1 witness: a run of the listing program whose sign-in was answered 401
\* ended with the sign-in call as its only request.
SignInRejectedRunEnded ==
    /\ prog = "rest-api"
    /\ pc = "raised"
    /\ Len(requests) = 1
    /\ responses[1].received
    /\ responses[1].status_code = 401
    /\ HasToken(responses[1])

\* C2: while a required field is absent or empty no HTTP request is sent and
\* the run never gets past the loading of the configuration; when it has ended
\* it ended in the configuration error, and if exactly one field is missing
\* the message names exactly that field.
MissingFieldFailsBeforeNetwork ==
    MissingFields # {} =>
       /\ requests = <<>>
       /\ pc \in {"load_config", "ca_load_config", "done", "raised"}
       /\ Terminated =>
             /\ IsConfigurationError(exc)
             /\ \A k \in MissingFields :
                   MissingFields = {k} =>
                      exc.msg = "Missing required environment variables: " \o k

\* C2 witness: the listing program ended with only CONNECTED_APP_SECRET
\* missing, a field that the second of its two loaders checks.
OnlySecretMissingRunEnded ==
    /\ prog = "rest-api"
    /\ Terminated
    /\ MissingFields = {"CONNECTED_APP_SECRET"}

\* C3: the configuration error a run ends in lists every required field that
\* is missing in that run.
AllMissingFieldsListedAtOnce ==
    (Terminated /\ MissingFields # {}) =>
       /\ IsConfigurationError(exc)
       /\ MissingFields \subseteq NamesListed(exc.msg)

\* C4: a sign-in answered with a 4xx/5xx status ends in an HTTPError that
\* carries that response (its status code and body), which ca-auth.py logs;
\* a sign-in that got no response ends in a ConnectionError carrying no
\* response, so the two outcomes differ.
SignInHttpErrorCarriesStatus ==
    (Len(responses) >= 1) =>
       LET r == responses[1]
       IN  /\ (r.received /\ r.status_code >= 400 /\ r.status_code <= 599) =>
                 /\ exc.type = "HTTPError"
                 /\ exc.response.received
                 /\ exc.response.status_code = r.status_code
                 /\ exc.response.json = r.json
                 /\ prog = "ca-auth" =>
                       \E i \in 1..Len(log) :
                          log[i] = Error("Response Status Code: "
                                         \o ToString(r.status_code))
           /\ ~r.received =>
                 /\ exc.type = "ConnectionError"
                 /\ ~exc.response.received

\* C4 witness: a sign-in answered 401 has ended the run.
SignInAnswered401 ==
    /\ Len(responses) = 1
    /\ responses[1].received
    /\ responses[1].status_code = 401
    /\ Terminated

\* C5: a 2xx schema-query response whose body has a top-level `errors` array
\* is presented to the caller as an error, never as a returned document.
GraphQLErrorsAreAnError ==
    (prog = "metadata-api" /\ Len(responses) = 2
       /\ Is2xx(responses[2]) /\ responses[2].is_json
       /\ "errors" \in DOMAIN responses[2].json)
    => (~result.returned /\ exc.type # "")

\* C6 as stated: every query request carries the header X-session-auth with
\* the session token of the sign-in response as its value.
QueryCarriesXSessionAuth ==
    \A i \in 1..Len(requests) :
       IsQueryCall(requests[i]) =>
          /\ "X-session-auth" \in DOMAIN requests[i].headers
          /\ requests[i].headers["X-session-auth"]
                = responses[1].json.credentials.token

\* C6 amended: every query request carries the header X-tableau-auth whose
\* value is exactly the session token the sign-in response of the same run
\* returned.
QueryCarriesXTableauAuth ==
    \A i \in 1..Len(requests) :
       IsQueryCall(requests[i]) =>
          /\ "X-tableau-auth" \in DOMAIN requests[i].headers
          /\ HasToken(responses[1])
          /\ requests[i].headers["X-tableau-auth"]
                = responses[1].json.credentials.token
          /\ requests[i].headers["X-tableau-auth"] # ""

\* C6 witness: a query request was sent after a sign-in that returned T2.
QuerySentWithTokenT2 ==
    /\ Len(requests) = 2
    /\ IsQueryCall(requests[2])
    /\ responses[1].json.credentials.token = "T2"

\* C7: the listing request carries exactly one filter parameter, whose value
\* is projectName:in:[p1,p2] with the two configured project names verbatim
\* and in order; the query string on the wire decodes to the same value.
FilterIsProjectNamesInBrackets ==
    \A i \in 1..Len(requests) :
       IsListingCall(requests[i]) =>
          LET expected == "projectName:in:[" \o env["TABLEAU_PROJECT_1"]
                          \o "," \o env["TABLEAU_PROJECT_2"] \o "]"
          IN  /\ ParamValues(requests[i].params, "filter") = <<expected>>
              /\ QueryValues(requests[i].query, "filter") = <<expected>>

\* C7 witness: the listing request was sent for projects Sales and HR, with
\* the filter projectName:in:[Sales,HR].
SalesHrFilterSent ==
    /\ Len(requests) = 2
    /\ IsListingCall(requests[2])
    /\ env["TABLEAU_PROJECT_1"] = "Sales"
    /\ env["TABLEAU_PROJECT_2"] = "HR"
    /\ ParamValues(requests[2].params, "filter")
          = <<"projectName:in:[Sales,HR]">>

\* C8: the assertion built has exp exactly 5 minutes after iat, and iat is the
\* clock value the call read, however far the clock moved on meanwhile.
ExpiryIsIssuedAtPlusFiveMinutes ==
    (pc \notin {"load_config", "ca_load_config", "utcnow", "jwt_encode"}
       /\ jwt_token # NoJwt)
    => /\ jwt_token.payload.exp = jwt_token.payload.iat + 300
       /\ jwt_token.payload.iat = now \div TicksPerSecond

\* C8 witness: an assertion was built and the clock is a whole second or more
\* past the reading the assertion was built from.
AssertionBuiltClockMovedOn ==
    /\ pc = "signin"
    /\ jwt_token # NoJwt
    /\ clock >= now + TicksPerSecond

\* C9: a run sends at most one sign-in request and at most one query request;
\* every request but the last was answered successfully, and a request that
\* failed (no response, a non-2xx status, a body that is not JSON or lacks
\* the expected keys) ended the run with the failure as its outcome.
NoRetries ==
    /\ Cardinality({i \in 1..Len(requests) : IsSignInCall(requests[i])}) <= 1
    /\ Cardinality({i \in 1..Len(requests) : IsQueryCall(requests[i])}) <= 1
    /\ Len(requests) <= 2
    /\ Len(responses) = Len(requests)
    /\ \A i \in 1..Len(requests) :
          LET r == responses[i]
              failed == \/ ~Is2xx(r)
                        \/ ~r.is_json
                        \/ IsSignInCall(requests[i])
                             /\ ~(HasToken(r) /\ HasSiteId(r))
                        \/ IsListingCall(requests[i]) /\ ~HasWorkbookList(r)
          IN  failed => /\ i = Len(requests)
                        /\ Terminated
                        /\ exc.type # ""
                        /\ \E j \in 1..Len(log) : log[j].level = "ERROR"

\* C9 witness: the query call failed with a 500 after a successful sign-in.
QueryFailedAfterSignIn ==
    /\ Len(requests) = 2
    /\ responses[2].received
    /\ responses[2].status_code = 500
    /\ Terminated

\* C10: a 2xx sign-in body without credentials.token or credentials.site.id,
\* and a 200 listing body without workbooks.workbook, end the call in a
\* KeyError: not the ConnectionError of a transport failure nor the HTTPError
\* of a non-2xx status, and without a session or a workbook list returned.
MalformedResponseIsDistinct ==
    /\ (Len(responses) >= 1 /\ Is2xx(responses[1]) /\ responses[1].is_json
          /\ ~(HasToken(responses[1]) /\ HasSiteId(responses[1])))
       => /\ exc.type = "KeyError"
          /\ exc.type \notin {"ConnectionError", "HTTPError"}
          /\ ~exc.response.received
          /\ session = NoSession
          /\ prog = "ca-auth" =>
                \E i \in 1..Len(log) :
                   StartsWith(log[i].msg, "Unexpected response structure")
    /\ (prog = "rest-api" /\ Len(responses) = 2
          /\ responses[2].received /\ responses[2].status_code = 200
          /\ responses[2].is_json /\ ~HasWorkbookList(responses[2]))
       => /\ exc.type = "KeyError"
          /\ exc.type \notin {"ConnectionError", "HTTPError"}
          /\ ~exc.response.received
          /\ ~result.returned

\* C10 witness: the listing call got a 200 whose body has no `workbooks` key.
ListingBodyWithoutWorkbooks ==
    /\ prog = "rest-api"
    /\ Len(responses) = 2
    /\ responses[2].status_code = 200
    /\ responses[2].is_json
    /\ "workbooks" \notin DOMAIN responses[2].json
    /\ Terminated

====
